---- MODULE Spec2Model ----
(***************************************************************************)
(* Model of the raymarks benchmark harness: BenchmarkContext               *)
(* (src/src/context.rs) and the driver bunny_rasterization                 *)
(* (src/src/main.rs).                                                      *)
(*                                                                         *)
(* The device is modelled by what the calls made in context.rs do:         *)
(* textures and buffers are allocations with an identity, a size, a        *)
(* destroyed flag and a content tag; command encoders hold the commands    *)
(* recorded into them; the queue holds finished command buffers, which the *)
(* device executes in order and asynchronously to the host.                *)
(***************************************************************************)
EXTENDS Integers, Sequences, FiniteSets, TLC

(* ---------------------------------------------------------------------- *)
(* Bounds of the model                                                     *)
(* ---------------------------------------------------------------------- *)
MaxResizes == 2
MaxPasses == 2
MaxSubmits == 2
MaxRuns == 2

(* ---------------------------------------------------------------------- *)
(* Program constants                                                       *)
(* ---------------------------------------------------------------------- *)
DefaultWidth == 1024
DefaultHeight == 1024
BytesPerPixel == 4
RowPitchAlignment == 256
DrawVertices == 3
DrawInstances == 1

DefaultSize == <<DefaultWidth, DefaultHeight>>

\* Resolutions a caller may request (all with w > 0 and h > 0).  32 pixels
\* give a row pitch of 128 bytes, 64 and 128 pixels a multiple of 256.
Sizes == {<<32, 32>>, <<128, 64>>}

\* Resolutions handed to the driver.
DriverSizes == {<<32, 32>>, <<64, 64>>, <<128, 64>>}

\* Workload sizes handed to the driver.
BunnyCounts == {1, 1000}

BenchmarkName == "bunny_rasterization"

CompleteLine == "Bunny rasterization benchmark complete."

VARIABLES
    textures,               \* device: every texture ever created, by id
    buffers,                \* device: every buffer ever created, by id
    encoders,               \* device: every command encoder ever created, by id
    queue,                  \* device queue: ids of the submitted command buffers
    executed,               \* number of queue entries the device has finished
    devlog,                 \* device allocation events, in program order
    render_target,          \* BenchmarkContext.render_target (texture id)
    output_staging_buffer,  \* BenchmarkContext.output_staging_buffer (buffer id)
    commands,               \* BenchmarkContext.commands (encoder id)
    passCount,              \* number of rasterization passes recorded so far
    savePc,                 \* position inside save_render_target
    saveArgs,               \* filename, width, height of the running save
    channel,                \* the flume channel of the map_async callback
    hostRead,               \* what the last get_mapped_range copy observed
    files,                  \* the image directory
    failure,                \* "none", or the fatal error that ended the process
    lastOp,                 \* the last Context operation that was called
    drvPc,                  \* position of bunny_rasterization ("off": no driver)
    resolutions,            \* argument of bunny_rasterization
    bunny_counts,           \* argument of bunny_rasterization
    idx,                    \* number of loop iterations started
    trace,                  \* Context calls made by the driver, in order
    log                     \* log lines emitted by the driver

ctxVars == <<textures, buffers, encoders, queue, executed, devlog, render_target,
             output_staging_buffer, commands, passCount>>
saveVars == <<savePc, saveArgs, channel, hostRead, files>>
drvVars == <<drvPc, resolutions, bunny_counts, idx, trace, log>>
vars == <<ctxVars, saveVars, failure, lastOp, drvVars>>

(* ---------------------------------------------------------------------- *)
(* Helpers                                                                 *)
(* ---------------------------------------------------------------------- *)
Digit == <<"0", "1", "2", "3", "4", "5", "6", "7", "8", "9">>

RECURSIVE ToDigits(_)
\* Decimal rendering of an unsigned integer by format!("{}").
ToDigits(n) ==
    IF n < 10 THEN <<Digit[n + 1]>>
    ELSE ToDigits(n \div 10) \o <<Digit[(n % 10) + 1]>>

\* format!("{}_{}x{}.png", filename, width, height)
FileName(filename, width, height) ==
    <<filename, "_">> \o ToDigits(width) \o <<"x">> \o ToDigits(height) \o <<".png">>

SeqSet(s) == {s[i] : i \in 1..Len(s)}

(* ---------------------------------------------------------------------- *)
(* Resource creation                                                       *)
(* ---------------------------------------------------------------------- *)
\* BenchmarkContext::render_target: a 2D texture of the given size.
NewTexture(size) ==
    [width |-> size[1], height |-> size[2], destroyed |-> FALSE, content |-> 0]

\* The mutant allocates the buffer for one byte per pixel.
StagingBufferSizeOneByte(size) == size[1] * size[2]

\* BenchmarkContext::output_staging_buffer: size.0 * size.1 * 4 bytes.
StagingBufferSize(size) == size[1] * size[2] * BytesPerPixel

NewBuffer(size) ==
    [size |-> StagingBufferSize(size), destroyed |-> FALSE, map |-> "idle",
     content |-> 0, written |-> 0]

NewEncoder == [state |-> "recording", cmds |-> <<>>]

(* ---------------------------------------------------------------------- *)
(* The state after BenchmarkContext::new                                   *)
(* ---------------------------------------------------------------------- *)
ContextInit ==
    /\ encoders = <<NewEncoder>>
    /\ commands = 1
    /\ textures = <<NewTexture(DefaultSize)>>
    /\ render_target = 1
    /\ buffers = <<NewBuffer(DefaultSize)>>
    /\ output_staging_buffer = 1
    /\ devlog = <<[ev |-> "create_texture", id |-> 1],
                  [ev |-> "create_buffer", id |-> 1]>>
    /\ queue = <<>>
    /\ executed = 0
    /\ passCount = 0
    /\ savePc = "idle"
    /\ saveArgs = [filename |-> "", width |-> 0, height |-> 0]
    /\ channel = "empty"
    /\ hostRead = [buffer |-> 0, map |-> "idle", pending |-> 0, len |-> 0, content |-> 0]
    /\ files = {}
    /\ failure = "none"
    /\ lastOp = [op |-> "new", size |-> DefaultSize]

Init ==
    /\ ContextInit
    /\ drvPc = "off"
    /\ resolutions = <<>>
    /\ bunny_counts = <<>>
    /\ idx = 0
    /\ trace = <<>>
    /\ log = <<>>

(* ---------------------------------------------------------------------- *)
(* Device operations used by the Context                                   *)
(* ---------------------------------------------------------------------- *)
\* The mutant forgets the destroy call on the old render target.
DestroyTextureSkipped(texs, id) == texs

\* Texture::destroy
DestroyTexture(texs, id) == [texs EXCEPT ![id].destroyed = TRUE]

\* The mutant forgets the destroy call on the old staging buffer.
DestroyBufferSkipped(bufs, id) == bufs

\* Buffer::destroy (a destroyed buffer is no longer mapped)
DestroyBuffer(bufs, id) == [bufs EXCEPT ![id].destroyed = TRUE, ![id].map = "idle"]

Live(rs) == {i \in 1..Len(rs) : ~rs[i].destroyed}

\* The mutant draws one instance per bunny of the running configuration.
RenderCmdPerBunny(id, tex) ==
    [kind |-> "render", id |-> id, texture |-> tex, buffer |-> 0,
     loadop |-> "clear_black", store |-> TRUE,
     vertices |-> DrawVertices,
     instances |-> IF idx \in DOMAIN bunny_counts THEN bunny_counts[idx]
                   ELSE DrawInstances,
     offset |-> 0, bytes_per_row |-> 0, rows_per_image |-> 0,
     width |-> 0, height |-> 0]

RenderCmd(id, tex) ==
    [kind |-> "render", id |-> id, texture |-> tex, buffer |-> 0,
     loadop |-> "clear_black", store |-> TRUE,
     vertices |-> DrawVertices, instances |-> DrawInstances,
     offset |-> 0, bytes_per_row |-> 0, rows_per_image |-> 0,
     width |-> 0, height |-> 0]

\* The mutant gives the row pitch in pixels instead of bytes.
CopyCmdPitchInPixels(id, tex, buf, w, h) ==
    [kind |-> "copy", id |-> id, texture |-> tex, buffer |-> buf,
     loadop |-> "none", store |-> FALSE, vertices |-> 0, instances |-> 0,
     offset |-> 0, bytes_per_row |-> w, rows_per_image |-> h,
     width |-> w, height |-> h]

CopyCmd(id, tex, buf, w, h) ==
    [kind |-> "copy", id |-> id, texture |-> tex, buffer |-> buf,
     loadop |-> "none", store |-> FALSE, vertices |-> 0, instances |-> 0,
     offset |-> 0, bytes_per_row |-> w * BytesPerPixel, rows_per_image |-> h,
     width |-> w, height |-> h]

\* copy_texture_to_buffer accepts a row pitch only when it is a multiple of 256.
RowPitchAccepted(bytes_per_row) == bytes_per_row % RowPitchAlignment = 0

\* Queue::submit rejects a command buffer that uses a destroyed texture or
\* buffer, or a buffer that is mapped or has a mapping pending.
CmdSubmittable(c, texs, bufs) ==
    /\ ~texs[c.texture].destroyed
    /\ c.kind = "copy" => (~bufs[c.buffer].destroyed /\ bufs[c.buffer].map = "idle")

Submittable(cmds, texs, bufs) ==
    \A i \in 1..Len(cmds) : CmdSubmittable(cmds[i], texs, bufs)

\* The device executing one command: a render pass writes the texture, a copy
\* writes bytes_per_row * rows bytes of the texture's pixels to the buffer.
ExecTextures(c, texs) ==
    IF c.kind = "render" THEN [texs EXCEPT ![c.texture].content = c.id] ELSE texs

ExecBuffers(c, texs, bufs) ==
    IF c.kind = "copy"
    THEN [bufs EXCEPT ![c.buffer].content = texs[c.texture].content,
                      ![c.buffer].written = c.bytes_per_row * c.rows_per_image]
    ELSE bufs

RECURSIVE ExecCmds(_, _, _)
\* In-order execution of a command buffer; the result is <<textures, buffers>>.
ExecCmds(cmds, texs, bufs) ==
    IF cmds = <<>> THEN <<texs, bufs>>
    ELSE ExecCmds(Tail(cmds), ExecTextures(Head(cmds), texs),
                  ExecBuffers(Head(cmds), ExecTextures(Head(cmds), texs), bufs))

RECURSIVE ExecQueue(_, _, _, _)
\* In-order execution of the queue entries after position `done`.
ExecQueue(q, done, texs, bufs) ==
    IF done >= Len(q) THEN <<texs, bufs>>
    ELSE LET r == ExecCmds(encoders[q[done + 1]].cmds, texs, bufs)
         IN ExecQueue(q, done + 1, r[1], r[2])

(* ---------------------------------------------------------------------- *)
(* BenchmarkContext operations                                             *)
(* ---------------------------------------------------------------------- *)
\* The device calls of resize_render_target, in the order of its four lines.
ResizeEvents(oldTex, newTex, oldBuf, newBuf) ==
    <<[ev |-> "destroy_texture", id |-> oldTex],
      [ev |-> "create_texture", id |-> newTex],
      [ev |-> "destroy_buffer", id |-> oldBuf],
      [ev |-> "create_buffer", id |-> newBuf]>>

\* The mutant also throws away what has been recorded for the old target.
resize_render_target_reset(size) ==
    /\ textures' = Append(DestroyTexture(textures, render_target), NewTexture(size))
    /\ render_target' = Len(textures) + 1
    /\ buffers' = Append(DestroyBuffer(buffers, output_staging_buffer), NewBuffer(size))
    /\ output_staging_buffer' = Len(buffers) + 1
    /\ devlog' = devlog \o ResizeEvents(render_target, Len(textures) + 1,
                                        output_staging_buffer, Len(buffers) + 1)
    /\ lastOp' = [op |-> "resize", size |-> size]
    /\ encoders' = [encoders EXCEPT ![commands].cmds = <<>>]
    /\ UNCHANGED <<queue, executed, commands, passCount, saveVars, failure>>

\* resize_render_target(size)
resize_render_target(size) ==
    /\ textures' = Append(DestroyTexture(textures, render_target), NewTexture(size))
    /\ render_target' = Len(textures) + 1
    /\ buffers' = Append(DestroyBuffer(buffers, output_staging_buffer), NewBuffer(size))
    /\ output_staging_buffer' = Len(buffers) + 1
    /\ devlog' = devlog \o ResizeEvents(render_target, Len(textures) + 1,
                                        output_staging_buffer, Len(buffers) + 1)
    /\ lastOp' = [op |-> "resize", size |-> size]
    /\ UNCHANGED <<encoders, queue, executed, commands, passCount, saveVars, failure>>

\* The mutant records the copy before the render pass.
PassCmdsCopyFirst(id, tex, buf, w, h) == <<CopyCmd(id, tex, buf, w, h), RenderCmd(id, tex)>>

\* The commands one rasterization_pass records: the render pass, then the copy.
PassCmds(id, tex, buf, w, h) == <<RenderCmd(id, tex), CopyCmd(id, tex, buf, w, h)>>

\* rasterization_pass(); shaderOk is whether load_source could read the shader.
rasterization_pass(shaderOk) ==
    LET id == passCount + 1
        w == textures[render_target].width
        h == textures[render_target].height
        cmds == PassCmds(id, render_target, output_staging_buffer, w, h)
        accepted == RowPitchAccepted(w * BytesPerPixel)
        recorded == IF accepted THEN cmds
                    ELSE SelectSeq(cmds, LAMBDA c : c.kind = "render")
    IN /\ lastOp' = [op |-> "pass", size |-> <<w, h>>]
       /\ IF ~shaderOk
          THEN /\ failure' = "shader"
               /\ UNCHANGED <<encoders, passCount>>
          ELSE /\ passCount' = id
               /\ encoders' = [encoders EXCEPT ![commands].cmds = @ \o recorded]
               /\ failure' = IF accepted THEN "none" ELSE "validation"
       /\ UNCHANGED <<textures, buffers, queue, executed, devlog, render_target,
                      output_staging_buffer, commands, saveVars>>

\* The mutant submits the recorder but keeps using it.
SubmitKeepRecorder(encs, cur) == [encs EXCEPT ![cur].state = "finished"]

\* The mutant installs a recorder that still holds the submitted commands.
SubmitStaleCommands(encs, cur) ==
    Append([encs EXCEPT ![cur].state = "finished"],
           [state |-> "recording", cmds |-> encs[cur].cmds])

\* mem::replace of the recorder by a fresh one; the old one is finished.
SubmitEncoders(encs, cur) == Append([encs EXCEPT ![cur].state = "finished"], NewEncoder)

\* submit()
submit ==
    /\ encoders' = SubmitEncoders(encoders, commands)
    /\ commands' = Len(encoders')
    /\ lastOp' = [op |-> "submit", size |-> <<0, 0>>]
    /\ IF Submittable(encoders[commands].cmds, textures, buffers)
       THEN /\ queue' = Append(queue, commands)
            /\ failure' = "none"
       ELSE /\ failure' = "validation"
            /\ UNCHANGED queue
    /\ UNCHANGED <<textures, buffers, executed, devlog, render_target,
                   output_staging_buffer, passCount, saveVars>>

(* ---------------------------------------------------------------------- *)
(* save_render_target: map request, poll, receive + read + encode + write  *)
(* ---------------------------------------------------------------------- *)
\* Lines 174-179: the dimensions are read and the mapping is requested.
\* map_async on a buffer that is already mapped is a fatal error.
save_render_target(filename) ==
    /\ lastOp' = [op |-> "save", size |-> <<0, 0>>]
    /\ saveArgs' = [filename |-> filename,
                    width |-> textures[render_target].width,
                    height |-> textures[render_target].height]
    /\ IF buffers[output_staging_buffer].map = "idle"
       THEN /\ buffers' = [buffers EXCEPT ![output_staging_buffer].map = "pending"]
            /\ channel' = "empty"
            /\ savePc' = "poll"
            /\ failure' = "none"
       ELSE /\ failure' = "map"
            /\ UNCHANGED <<buffers, channel, savePc>>
    /\ UNCHANGED <<textures, encoders, queue, executed, devlog, render_target,
                   output_staging_buffer, commands, passCount, hostRead, files>>

\* The mutant resolves the mapping without waiting for the submitted work.
PollExecutedNoWait(q, done) == done

\* device.poll(Maintain::wait()): every submitted command buffer has finished.
PollExecuted(q, done) == Len(q)

\* The mutant ignores the timeout and carries on to the receive.
PollTimeoutIgnored == "none"

\* panic_on_timeout: a poll that timed out is fatal.
PollTimeout == "timeout"

\* A pending mapping completes once the work submitted before it has finished;
\* the callback then sends the result into the channel.
ResolveMappings(bufs) ==
    [i \in 1..Len(bufs) |->
        IF bufs[i].map = "pending" THEN [bufs[i] EXCEPT !.map = "mapped"] ELSE bufs[i]]

\* Line 180.  The device can time out only while submitted work is unfinished.
SavePoll ==
    /\ failure = "none"
    /\ savePc = "poll"
    /\ \E outcome \in {"complete", "timeout"} :
         IF outcome = "timeout" /\ executed < Len(queue)
         THEN /\ failure' = PollTimeout
              /\ savePc' = "recv"
              /\ UNCHANGED <<textures, buffers, executed, channel>>
         ELSE LET upto == PollExecuted(queue, executed)
                  r == ExecQueue(SubSeq(queue, 1, upto), executed, textures, buffers)
              IN /\ textures' = r[1]
                 /\ buffers' = ResolveMappings(r[2])
                 /\ executed' = upto
                 /\ channel' = "ok"
                 /\ savePc' = "recv"
                 /\ UNCHANGED failure
    /\ UNCHANGED <<encoders, queue, devlog, render_target, output_staging_buffer,
                   commands, passCount, saveArgs, hostRead, files, lastOp, drvVars>>

\* The mutant names every file after the benchmark alone.
ImagePathNoSize(filename, width, height) == <<filename, ".png">>

\* image_directory().join(format!("{}_{}x{}.png", filename, width, height))
ImagePath(filename, width, height) == FileName(filename, width, height)

\* File::create truncates an existing file of the same path.
WriteFile(fs, f) == {g \in fs : g.path # f.path} \cup {f}

\* Lines 181-198: receive the mapping result, copy the mapped bytes to host
\* memory, encode them as a width x height RGBA PNG and write the file.
\* ioOk is whether the file could be created and written.
SaveFinish ==
    /\ failure = "none"
    /\ savePc = "recv"
    /\ channel # "empty"
    /\ \E ioOk \in BOOLEAN :
         LET buf == buffers[output_staging_buffer]
             w == saveArgs.width
             h == saveArgs.height
             data == [buffer |-> output_staging_buffer, map |-> buf.map,
                      pending |-> Len(queue) - executed,
                      len |-> buf.size, content |-> buf.content]
         IN IF channel # "ok"
            THEN /\ failure' = "map"
                 /\ UNCHANGED <<hostRead, files, savePc>>
            ELSE /\ hostRead' = data
                 /\ IF data.len # w * h * BytesPerPixel
                    THEN /\ failure' = "encode"
                         /\ UNCHANGED <<files, savePc>>
                    ELSE IF ~ioOk
                    THEN /\ failure' = "io"
                         /\ UNCHANGED <<files, savePc>>
                    ELSE /\ files' = WriteFile(files,
                                        [path |-> ImagePath(saveArgs.filename, w, h),
                                         width |-> w, height |-> h,
                                         len |-> data.len, content |-> data.content])
                         /\ savePc' = "idle"
                         /\ UNCHANGED failure
    /\ UNCHANGED <<ctxVars, saveArgs, channel, lastOp, drvVars>>

\* The device finishes the next command buffer of the queue on its own.
GpuExecute ==
    /\ failure = "none"
    /\ executed < Len(queue)
    /\ LET r == ExecCmds(encoders[queue[executed + 1]].cmds, textures, buffers)
       IN /\ textures' = r[1]
          /\ buffers' = r[2]
    /\ executed' = executed + 1
    /\ UNCHANGED <<encoders, queue, devlog, render_target, output_staging_buffer,
                   commands, passCount, saveVars, failure, lastOp, drvVars>>

(* ---------------------------------------------------------------------- *)
(* A caller of the Context's public operations, in any order               *)
(* ---------------------------------------------------------------------- *)
CallerReady == failure = "none" /\ drvPc = "off" /\ savePc = "idle"

Resize ==
    /\ CallerReady
    /\ Len(textures) <= MaxResizes
    /\ \E size \in Sizes : resize_render_target(size)
    /\ UNCHANGED drvVars

RasterizationPass ==
    /\ CallerReady
    /\ passCount < MaxPasses
    /\ \E shaderOk \in BOOLEAN : rasterization_pass(shaderOk)
    /\ UNCHANGED drvVars

Submit ==
    /\ CallerReady
    /\ Len(encoders) <= MaxSubmits
    /\ submit
    /\ UNCHANGED drvVars

SaveRenderTarget ==
    /\ CallerReady
    /\ save_render_target(BenchmarkName)
    /\ UNCHANGED drvVars

Next ==
    \/ Resize
    \/ RasterizationPass
    \/ Submit
    \/ SaveRenderTarget
    \/ SavePoll
    \/ SaveFinish
    \/ GpuExecute

Spec == Init /\ [][Next]_vars

(* ---------------------------------------------------------------------- *)
(* The driver: bunny_rasterization(context, resolutions, bunny_counts)     *)
(* ---------------------------------------------------------------------- *)
SeqsUpTo(S, n) == UNION {[1..k -> S] : k \in 0..n}

\* run_all is about to build the Context; the Context's fields hold what
\* BenchmarkContext::new returns when it succeeds.
DriverInit ==
    /\ ContextInit
    /\ drvPc = "new"
    /\ resolutions \in SeqsUpTo(DriverSizes, MaxRuns)
    /\ bunny_counts \in SeqsUpTo(BunnyCounts, MaxRuns)
    /\ idx = 0
    /\ trace = <<>>
    /\ log = <<>>

Call(op, size) == [op |-> op, size |-> size]

\* The mutant carries on after a failed step instead of ending the process.
DrvReadyAfterError(pc) == drvPc = pc

\* The driver is at pc, and no unwrap has ended the process.
DrvReady(pc) == failure = "none" /\ drvPc = pc

\* BenchmarkContext::new_sync(): request_adapter and request_device are
\* unwrapped, so a missing adapter or device is fatal.
DrvNew ==
    /\ DrvReady("new")
    /\ \E acquired \in {"ok", "adapter", "device"} :
         IF acquired = "ok"
         THEN drvPc' = "loop" /\ failure' = "none"
         ELSE drvPc' = "new" /\ failure' = acquired
    /\ UNCHANGED <<ctxVars, saveVars, lastOp, resolutions, bunny_counts, idx,
                   trace, log>>

Min(a, b) == IF a < b THEN a ELSE b

\* The mutant walks resolutions and bunny_counts together, pair by pair.
DrvLoopPairs ==
    /\ DrvReady("loop")
    /\ IF idx < Min(Len(resolutions), Len(bunny_counts))
       THEN idx' = idx + 1 /\ drvPc' = "resize"
       ELSE idx' = idx /\ drvPc' = "log"
    /\ UNCHANGED <<ctxVars, saveVars, failure, lastOp, resolutions, bunny_counts,
                   trace, log>>

\* The loop header `for size in resolutions`: the next resolution, or the end
\* of the list.  bunny_counts is not read.
DrvLoop ==
    /\ DrvReady("loop")
    /\ IF idx < Len(resolutions)
       THEN idx' = idx + 1 /\ drvPc' = "resize"
       ELSE idx' = idx /\ drvPc' = "log"
    /\ UNCHANGED <<ctxVars, saveVars, failure, lastOp, resolutions, bunny_counts,
                   trace, log>>

DrvResize ==
    /\ DrvReady("resize")
    /\ resize_render_target(resolutions[idx])
    /\ trace' = Append(trace, Call("resize", resolutions[idx]))
    /\ drvPc' = "pass"
    /\ UNCHANGED <<resolutions, bunny_counts, idx, log>>

DrvPass ==
    /\ DrvReady("pass")
    /\ \E shaderOk \in BOOLEAN : rasterization_pass(shaderOk)
    /\ trace' = Append(trace, Call("pass", <<0, 0>>))
    /\ drvPc' = "submit"
    /\ UNCHANGED <<resolutions, bunny_counts, idx, log>>

DrvSubmit ==
    /\ DrvReady("submit")
    /\ submit
    /\ trace' = Append(trace, Call("submit", <<0, 0>>))
    /\ drvPc' = "save"
    /\ UNCHANGED <<resolutions, bunny_counts, idx, log>>

\* save_render_target_sync: block_on drives the save to its end.
DrvSave ==
    /\ DrvReady("save")
    /\ save_render_target(BenchmarkName)
    /\ trace' = Append(trace, Call("save", <<0, 0>>))
    /\ drvPc' = "saving"
    /\ UNCHANGED <<resolutions, bunny_counts, idx, log>>

\* save_render_target_sync returns.
DrvSaved ==
    /\ DrvReady("saving")
    /\ savePc = "idle"
    /\ trace' = Append(trace, Call("saved", <<0, 0>>))
    /\ drvPc' = "loop"
    /\ UNCHANGED <<ctxVars, saveVars, failure, lastOp, resolutions, bunny_counts,
                   idx, log>>

\* info!("Bunny rasterization benchmark complete.")
DrvLog ==
    /\ DrvReady("log")
    /\ log' = Append(log, CompleteLine)
    /\ drvPc' = "done"
    /\ UNCHANGED <<ctxVars, saveVars, failure, lastOp, resolutions, bunny_counts,
                   idx, trace>>

DriverNext ==
    \/ DrvNew
    \/ DrvLoop
    \/ DrvResize
    \/ DrvPass
    \/ DrvSubmit
    \/ DrvSave
    \/ DrvSaved
    \/ DrvLog
    \/ SavePoll
    \/ SaveFinish
    \/ GpuExecute

DriverSpec == DriverInit /\ [][DriverNext]_vars

FairSpec == Spec /\ WF_vars(SavePoll) /\ WF_vars(SaveFinish)

(* ---------------------------------------------------------------------- *)
(* Properties                                                              *)
(* ---------------------------------------------------------------------- *)
Target == textures[render_target]
Staging == buffers[output_staging_buffer]

IsPrefix(s, t) == Len(s) <= Len(t) /\ s = SubSeq(t, 1, Len(s))

\* C1: in every reachable state the staging buffer's capacity is exactly
\* 4 * width * height of the current render target; right after
\* resize_render_target(w, h) the target's dimensions are (w, h); right after
\* construction they are (1024, 1024) with capacity 4 * 1024 * 1024.
C1_CapacityMatchesTarget ==
    /\ Staging.size = 4 * Target.width * Target.height
    /\ lastOp.op = "resize" => <<Target.width, Target.height>> = lastOp.size
    /\ lastOp.op = "new" =>
         /\ <<Target.width, Target.height>> = <<1024, 1024>>
         /\ Staging.size = 4 * 1024 * 1024

C1_Witness ==
    /\ lastOp = [op |-> "resize", size |-> <<128, 64>>]
    /\ Len(textures) = 3
    /\ passCount > 0
    /\ Staging.size = 32768

\* C2: exactly one render target and exactly one staging buffer are live, they
\* are the ones the Context holds, and every allocation made earlier was
\* destroyed before its replacement was created.
C2_OneLiveTargetAndBuffer ==
    /\ Live(textures) = {render_target}
    /\ Live(buffers) = {output_staging_buffer}
    /\ Cardinality(Live(textures)) + Cardinality(Live(buffers)) = 2
    /\ \A p \in 1..Len(devlog) :
         /\ devlog[p].ev = "create_texture" =>
              \A old \in 1..(devlog[p].id - 1) :
                 /\ textures[old].destroyed
                 /\ \E q \in 1..(p - 1) :
                      devlog[q] = [ev |-> "destroy_texture", id |-> old]
         /\ devlog[p].ev = "create_buffer" =>
              \A old \in 1..(devlog[p].id - 1) :
                 /\ buffers[old].destroyed
                 /\ \E q \in 1..(p - 1) :
                      devlog[q] = [ev |-> "destroy_buffer", id |-> old]

C2_Witness ==
    /\ Len(textures) = 3
    /\ Len(buffers) = 3
    /\ lastOp.op = "resize"
    /\ textures[1].destroyed /\ textures[2].destroyed
    /\ buffers[1].destroyed /\ buffers[2].destroyed

\* A step of resize_render_target(size): the only operation that allocates.
ResizeStep == Len(textures') = Len(textures) + 1 /\ lastOp'.op = "resize"

LiveAllocations == Cardinality(Live(textures)) + Cardinality(Live(buffers))

\* C3: a resize_render_target(w, h) that directly follows a
\* resize_render_target(w, h) with the same (w, h) leaves the target's
\* dimensions, the staging buffer's capacity and the number of live
\* allocations as the first call left them.
C3_ResizeIdempotent ==
    [][(ResizeStep /\ lastOp.op = "resize" /\ lastOp'.size = lastOp.size) =>
          /\ <<Target.width, Target.height>>' = <<Target.width, Target.height>>
          /\ Staging.size' = Staging.size
          /\ LiveAllocations' = LiveAllocations]_vars

C3_Witness ==
    /\ lastOp.op = "resize"
    /\ Len(textures) = 3
    /\ <<textures[2].width, textures[2].height>> = lastOp.size
    /\ <<textures[3].width, textures[3].height>> = lastOp.size
    /\ passCount = 0 /\ Len(encoders) = 1 /\ hostRead.buffer = 0
    /\ buffers[1].map = "idle"

Recording == {i \in 1..Len(encoders) : encoders[i].state = "recording"}

\* C4: in every state exactly one recorder is unsubmitted and it is the one
\* the Context holds; submitted recorders are all different from it and from
\* each other; a step only appends to a recorder, never changes a submitted
\* one, and a step that replaces the Context's recorder finishes the old one
\* and installs an empty one.
C4_OneLiveRecorder ==
    /\ [](/\ Recording = {commands}
          /\ \A i \in 1..Len(queue) : encoders[queue[i]].state = "finished"
          /\ \A i, j \in 1..Len(queue) : queue[i] = queue[j] => i = j)
    /\ [][/\ Len(encoders') >= Len(encoders)
          /\ \A i \in 1..Len(encoders) :
               /\ IsPrefix(encoders[i].cmds, encoders'[i].cmds)
               /\ encoders[i].state = "finished" => encoders'[i] = encoders[i]
          /\ commands' # commands =>
               /\ encoders'[commands].state = "finished"
               /\ encoders'[commands'] = [state |-> "recording", cmds |-> <<>>]
               /\ commands' > Len(encoders)]_vars

C4_Witness ==
    /\ Len(queue) = 2
    /\ commands = 3
    /\ encoders[1].cmds # <<>>
    /\ encoders[2].state = "finished"
    /\ encoders[3].cmds # <<>>

\* The places <<queue position, index>> at which command c has been enqueued.
EnqueuedAt(c) ==
    {pos \in (1..Len(queue)) \X (1..(2 * passCount)) :
        /\ pos[2] <= Len(encoders[queue[pos[1]]].cmds)
        /\ encoders[queue[pos[1]]].cmds[pos[2]] = c}

Recorded == UNION {SeqSet(encoders[i].cmds) : i \in 1..Len(encoders)}

\* A step of submit(): the only operation that creates a recorder.
SubmitStep == Len(encoders') = Len(encoders) + 1 /\ lastOp'.op = "submit"

\* C5: no recorded command is enqueued more than once, and a submit() that
\* follows a submit() with no rasterization_pass in between succeeds and
\* enqueues an empty command buffer.
C5_NoStaleResubmission ==
    /\ [](\A c \in Recorded : Cardinality(EnqueuedAt(c)) <= 1)
    /\ [][(SubmitStep /\ lastOp.op = "submit") =>
             /\ failure' = "none"
             /\ Len(queue') = Len(queue) + 1
             /\ encoders'[queue'[Len(queue')]].cmds = <<>>
             /\ \A i \in 1..Len(queue) : queue'[i] = queue[i]]_vars

C5_Witness ==
    /\ lastOp.op = "submit"
    /\ failure = "none"
    /\ Len(queue) = 2
    /\ Len(encoders[queue[1]].cmds) = 2
    /\ encoders[queue[2]].cmds = <<>>

\* The content the staging buffer b holds once every enqueued copy into it has
\* been executed: the output of the render pass of the last such copy.
RECURSIVE LastCopyInto(_, _)
LastCopyInto(b, n) ==
    IF n = 0 THEN 0
    ELSE LET cs == SelectSeq(encoders[queue[n]].cmds,
                             LAMBDA c : c.kind = "copy" /\ c.buffer = b)
         IN IF cs # <<>> THEN cs[Len(cs)].id ELSE LastCopyInto(b, n - 1)

\* C6: the host copies the staging buffer's bytes only when the mapping has
\* completed successfully, the mapping completes only when every submitted
\* command buffer has finished, no unfinished command buffer writes a buffer
\* that is mapped, and what the host reads is the output of the last copy
\* submitted into that buffer.
C6_ReadAfterGpuFinished ==
    /\ hostRead.buffer # 0 =>
         /\ hostRead.map = "mapped"
         /\ hostRead.pending = 0
    /\ (savePc = "recv" /\ channel = "ok") =>
         /\ executed = Len(queue)
         /\ Staging.map = "mapped"
    /\ (savePc = "idle" /\ hostRead.buffer = output_staging_buffer) =>
         hostRead.content = LastCopyInto(output_staging_buffer, Len(queue))
    /\ \A i \in (executed + 1)..Len(queue) :
         \A k \in 1..Len(encoders[queue[i]].cmds) :
            LET c == encoders[queue[i]].cmds[k]
            IN c.kind = "copy" => buffers[c.buffer].map # "mapped"

C6_Witness ==
    /\ savePc = "idle"
    /\ failure = "none"
    /\ hostRead.buffer = output_staging_buffer
    /\ hostRead.content = 2
    /\ Len(queue) = 2

\* C7: whenever save_render_target is not running, the staging buffer is not
\* mapped.
C7_UnmappedAfterSave ==
    savePc = "idle" => Staging.map = "idle"

\* C8: a running save_render_target polls the device once and then either
\* has ended or has failed fatally; it never waits for ever.
C8_SaveTerminates ==
    /\ (savePc # "idle") ~> (savePc = "idle" \/ failure # "none")
    /\ [][savePc = "recv" => savePc' # "poll"]_vars
    /\ [](savePc = "recv" => (channel = "ok" \/ failure # "none"))

C8_Witness ==
    /\ failure = "timeout"
    /\ lastOp.op = "save"
    /\ executed < Len(queue)

(* ---------------------------------------------------------------------- *)
(* Properties of the driver                                                *)
(* ---------------------------------------------------------------------- *)
\* The Context calls of one cycle at resolution size.
Cycle(size) ==
    <<Call("resize", size), Call("pass", <<0, 0>>), Call("submit", <<0, 0>>),
      Call("save", <<0, 0>>), Call("saved", <<0, 0>>)>>

RECURSIVE Cycles(_)
Cycles(res) == IF res = <<>> THEN <<>> ELSE Cycle(Head(res)) \o Cycles(Tail(res))

\* The (resolution, workload-size) pairs of the two lists.
Pairs(res, counts) ==
    [i \in 1..Min(Len(res), Len(counts)) |-> <<res[i], counts[i]>>]

\* C9 as stated: one cycle for each (resolution, workload-size) pair.
C9_OneCyclePerPair ==
    /\ Len(log) <= 1
    /\ Len(log) = 1 =>
         trace = Cycles([i \in 1..Len(Pairs(resolutions, bunny_counts)) |->
                            Pairs(resolutions, bunny_counts)[i][1]])

\* C9 (amended): the driver runs one cycle for each element of resolutions,
\* whatever bunny_counts holds; the calls made so far are always a prefix of
\* resize, pass, submit, save of each resolution in turn; completion is logged
\* at most once, and only when every cycle's save has returned.
C9_OneCyclePerResolution ==
    /\ IsPrefix(trace, Cycles(resolutions))
    /\ Len(log) <= 1
    /\ Len(log) = 1 => (trace = Cycles(resolutions) /\ log = <<CompleteLine>>)
    /\ drvPc = "done" <=> Len(log) = 1

C9_Witness ==
    /\ drvPc = "done"
    /\ Len(resolutions) = 2
    /\ Len(bunny_counts) = 1
    /\ Len(trace) = 10

\* The number of the last cycle run at resolution size.
LastCycleAt(res, size) ==
    CHOOSE i \in 1..Len(res) : res[i] = size /\ \A j \in (i + 1)..Len(res) : res[j] # size

ExpectedFiles(res) ==
    {[path |-> FileName(BenchmarkName, size[1], size[2]),
      width |-> size[1], height |-> size[2],
      len |-> 4 * size[1] * size[2],
      content |-> LastCycleAt(res, size)] : size \in SeqSet(res)}

\* C10: a run that ends, other than by an adapter, shader, device or file-system failure,
\* has produced exactly one file per resolution, named
\* bunny_rasterization_{w}x{h}.png, of dimensions (w, h) and 4 * w * h bytes,
\* holding the output of the render pass of that resolution's own cycle.
C10_OneFilePerResolution ==
    (drvPc = "done" \/ failure \notin {"none", "adapter", "device", "shader", "timeout", "io"}) =>
        files = ExpectedFiles(resolutions)

\* C11: once an error has occurred nothing more happens: every step is taken
\* from a state without failure, so no Context operation follows the failed
\* one, no further configuration is started, the failed step is not repeated
\* and the completion line is never logged.
C11_ErrorsAreFatal ==
    /\ [][failure = "none"]_vars
    /\ [](failure # "none" => (log = <<>> /\ drvPc # "done"))
    /\ [][failure' # "none" =>
            (log' = log /\ idx' = idx /\ Len(trace') <= Len(trace) + 1)]_vars

C11_Witness ==
    /\ failure = "io"
    /\ Len(resolutions) = 2
    /\ idx = 1
    /\ Len(trace) = 4
    /\ log = <<>>

\* The encoders that have been finished into a command buffer.
Finished == {i \in 1..Len(encoders) : encoders[i].state = "finished"}

\* Commands r, c are what one rasterization_pass contributes: a render pass
\* that clears to black, stores and draws 3 vertices of 1 instance, and the
\* copy of the same texture into a buffer.
IsPassPair(r, c) ==
    /\ r.kind = "render" /\ r.loadop = "clear_black" /\ r.store
    /\ r.vertices = 3 /\ r.instances = 1
    /\ c.kind = "copy" /\ c.id = r.id /\ c.texture = r.texture

\* C12: every command buffer is a sequence of pairs, a render pass directly
\* followed by the copy of its target into the staging buffer, and every
\* buffer holds, once the device has executed copies into it, the output of
\* the render pass recorded with the last of them.
C12_RenderThenCopy ==
    /\ \A e \in Finished :
         LET cs == encoders[e].cmds
         IN /\ Len(cs) % 2 = 0
            /\ \A k \in 1..Len(cs) :
                 k % 2 = 1 => IsPassPair(cs[k], cs[k + 1])
    /\ \A b \in 1..Len(buffers) : buffers[b].content = LastCopyInto(b, executed)

C12_Witness ==
    /\ Len(queue) = 1
    /\ Len(encoders[queue[1]].cmds) = 4
    /\ executed = 1
    /\ Staging.content = 2
    /\ Target.content = 2

\* Every copy command recorded so far, in any recorder.
RecordedCopies == {c \in Recorded : c.kind = "copy"}

\* The copy a rasterization_pass called in this state hands to the recorder.
CopyOfNextPass ==
    PassCmds(passCount + 1, render_target, output_staging_buffer,
             Target.width, Target.height)[2]

\* C13: every copy, recorded or about to be, covers the whole render target
\* it reads, at offset 0 with a row pitch of 4 * width bytes and height rows,
\* which is exactly the capacity of the staging buffer it writes; a buffer
\* the device has copied into has had exactly its capacity written.
C13_CopyFillsStagingBuffer ==
    /\ \A c \in RecordedCopies \cup {CopyOfNextPass} :
         /\ c.offset = 0
         /\ c.width = textures[c.texture].width
         /\ c.height = textures[c.texture].height
         /\ c.bytes_per_row = 4 * c.width
         /\ c.rows_per_image = c.height
         /\ c.bytes_per_row * c.rows_per_image = buffers[c.buffer].size
         /\ buffers[c.buffer].size = 4 * c.width * c.height
    /\ \A b \in 1..Len(buffers) :
         buffers[b].written # 0 => buffers[b].written = buffers[b].size

C13_Witness ==
    /\ Staging.written = 32768
    /\ Target.width = 128
    /\ Target.height = 64
    /\ \E c \in RecordedCopies : c.buffer = output_staging_buffer

\* C14: whenever rasterization_pass has got as far as recording its copy,
\* the copy's row pitch is a multiple of 256 bytes.
C14_RowPitchAligned ==
    (lastOp.op = "pass" /\ failure # "shader") =>
        CopyCmd(passCount, render_target, output_staging_buffer,
                lastOp.size[1], lastOp.size[2]).bytes_per_row % 256 = 0

\* What cycle i of a run over res records, whatever the workload sizes: the
\* render pass into the i-th resized target and the copy into its buffer.
CycleRender(i) ==
    [kind |-> "render", id |-> i, texture |-> i + 1, buffer |-> 0,
     loadop |-> "clear_black", store |-> TRUE, vertices |-> 3, instances |-> 1,
     offset |-> 0, bytes_per_row |-> 0, rows_per_image |-> 0,
     width |-> 0, height |-> 0]

CycleCopy(res, i) ==
    [kind |-> "copy", id |-> i, texture |-> i + 1, buffer |-> i + 1,
     loadop |-> "none", store |-> FALSE, vertices |-> 0, instances |-> 0,
     offset |-> 0, bytes_per_row |-> 4 * res[i][1], rows_per_image |-> res[i][2],
     width |-> res[i][1], height |-> res[i][2]]

\* C15: what a run calls, records and writes is determined by resolutions and
\* by how far the run has come; bunny_counts, of any values and any length,
\* occurs in none of it.  Two runs over the same resolutions therefore make
\* the same calls, record the same commands and write the same files.
C15_WorkloadSizeUnused ==
    /\ IsPrefix(trace, Cycles(resolutions))
    /\ idx <= Len(resolutions)
    /\ passCount <= idx
    /\ \A c \in Recorded :
         /\ c.id \in 1..idx
         /\ c \in {CycleRender(c.id), CycleCopy(resolutions, c.id)}
    /\ \/ files = ExpectedFiles(SubSeq(resolutions, 1, idx))
       \/ idx > 0 /\ files = ExpectedFiles(SubSeq(resolutions, 1, idx - 1))
    /\ drvPc = "done" =>
         /\ idx = Len(resolutions)
         /\ files = ExpectedFiles(resolutions)
         /\ Recorded = UNION {{CycleRender(i), CycleCopy(resolutions, i)} :
                                 i \in 1..Len(resolutions)}

C15_Witness ==
    /\ drvPc = "done"
    /\ Len(resolutions) = 2
    /\ bunny_counts = <<>>
    /\ Cardinality(files) = 2
    /\ passCount = 2

\* C16: the command buffer that submit has just finished and handed to the
\* queue uses only a render target and a staging buffer that are live.
C16_SubmitsOnlyLiveResources ==
    lastOp.op = "submit" =>
        \A k \in 1..Len(encoders[commands - 1].cmds) :
           LET c == encoders[commands - 1].cmds[k]
           IN /\ ~textures[c.texture].destroyed
              /\ c.kind = "copy" => ~buffers[c.buffer].destroyed

\* A step of rasterization_pass(): it records a pass or fails on the shader.
PassStep == lastOp'.op = "pass" /\ (passCount' = passCount + 1 \/ failure' = "shader")

\* A step of save_render_target(): its call, its poll or its completion.
SaveStep ==
    \/ lastOp'.op = "save" /\ lastOp.op # "save"
    \/ savePc # savePc'
    \/ savePc # "idle" /\ failure' # failure

TargetDims == <<Target.width, Target.height>>

\* C17: submit leaves the render target, its dimensions and the staging
\* buffer's capacity as they are; resize_render_target leaves the recorders
\* and their contents as they are; rasterization_pass leaves the target's
\* dimensions and the staging buffer's capacity as they are;
\* save_render_target leaves the recorders and the target's dimensions as
\* they are.
C17_Frames ==
    [][/\ SubmitStep =>
            /\ render_target' = render_target
            /\ output_staging_buffer' = output_staging_buffer
            /\ TargetDims' = TargetDims
            /\ Staging.size' = Staging.size
       /\ ResizeStep =>
            /\ commands' = commands
            /\ encoders' = encoders
       /\ PassStep =>
            /\ render_target' = render_target
            /\ TargetDims' = TargetDims
            /\ Staging.size' = Staging.size
       /\ SaveStep =>
            /\ commands' = commands
            /\ encoders' = encoders
            /\ render_target' = render_target
            /\ TargetDims' = TargetDims]_vars

C17_Witness ==
    /\ lastOp.op = "resize"
    /\ Len(encoders[commands].cmds) = 2
    /\ Len(queue) = 1
    /\ Cardinality(files) = 1

====
